---- MODULE Spec2Model ----
(***************************************************************************)
(* Model of the synthetic data generator of the scientific_community       *)
(* database: the budget-to-duration resolver of factories.py and the       *)
(* relational stitching done by ScientificCommunityDBManager in            *)
(* database_manager.py.                                                    *)
(*                                                                         *)
(* Four specifications share the module's variables:                       *)
(*   SpecFunding  DateTimeMixin.funding_start_end_date on one budget       *)
(*   SpecMap      ScientificCommunityDBManager._map_conferences, one       *)
(*                action per loop iteration                                *)
(*   SpecPass     _generate_and_insert_scientists_and_phds, one action     *)
(*                per faculty                                              *)
(*   Spec         one run of generate_and_insert_fake_data under the       *)
(*                safe_connection wrapper                                  *)
(***************************************************************************)
EXTENDS Integers, Sequences, FiniteSets, Bags, TLC

VARIABLES
    pc,                     \* position of the modelled call
    error,                  \* the exception that left the call, or NoError
    budget,                 \* funding_start_end_date: the funding argument
    start_date,             \* funding_start_end_date: first date returned (day ordinal)
    end_date,               \* funding_start_end_date: second date returned (day ordinal)
    fac_num,                \* fac_num
    conf_num,               \* conf_num
    sc_per_fac,             \* sc_per_fac
    fac_catalog,            \* len(c.FACULTIES["names"])
    conf_catalog,           \* len(c.CONFERENCES)
    faculties,              \* faculty_id of every generated Faculty
    addresses,              \* address_id of every generated Address
    conferences,            \* the Conference objects: faculty_id and address_id
    idx,                    \* _map_conferences: loop index
    map_fac_id,             \* _map_conferences: local fac_id
    conf_per_fac,           \* _map_conferences: local conf_per_fac
    i,                      \* _generate_and_insert_scientists_and_phds: loop variable
    fac_id,                 \* _generate_and_insert_scientists_and_phds: local fac_id
    phd_starting_id,        \* local phd_starting_id
    scientist_starting_id,  \* local scientist_starting_id
    scientists,             \* the mapper of the current iteration: title -> scientists
    phds,                   \* the PHD objects of the current iteration
    generated_scientist_ids, \* scientist_id of every Scientist generated so far
    generated_phd_ids,      \* phd_id of every PHD generated so far
    argslist,               \* per table, the argslist handed to execute_values; for the
                            \* per-faculty tables, by the current loop iteration
    works_at,               \* the bag of all rows handed to the
                            \* scientist_works_at_faculty insert so far
    inserted,               \* the tables of the successful execute_values calls, in order
    commit_calls,           \* number of calls of self._conn.commit()
    close_calls,            \* number of calls of db_manager.close()
    committed               \* a commit() call returned normally

fundingVars == <<budget, start_date, end_date>>
paramVars   == <<fac_num, conf_num, sc_per_fac, fac_catalog, conf_catalog>>
mapVars     == <<idx, map_fac_id, conf_per_fac>>
passVars    == <<i, fac_id, phd_starting_id, scientist_starting_id, scientists, phds,
                 generated_scientist_ids, generated_phd_ids>>
gatewayVars == <<argslist, works_at, inserted, commit_calls, close_calls, committed>>
vars == <<pc, error, fundingVars, paramVars, faculties, addresses, conferences,
          mapVars, passVars, gatewayVars>>

(***************************************************************************)
(* Bounds of the model.                                                    *)
(***************************************************************************)
FundingSpread  == 4     \* budgets within this distance of a bracket edge
MaxStartDay    == 1     \* start dates, as day offsets in the date window
MaxFacNum      == 2     \* fac_num ranges over 0..MaxFacNum
MaxConfNum     == 4     \* conf_num ranges over 0..MaxConfNum
MaxConfCatalog == 4     \* at most this many conferences in the list / catalog
MaxFacCatalog  == 2     \* at most this many faculty names in the catalog
MaxScPerFac    == 2     \* sc_per_fac of the pass ranges over 0..MaxScPerFac
MaxRunScPerFac == 1     \* sc_per_fac of a whole run ranges over 0..MaxRunScPerFac

None == 0               \* Python's None in an id field (ids start at 1)

\* An exception: its type and the statement that raised it.
Exception(type, at) == [type |-> type, at |-> at]
NoError == Exception("none", "none")

(***************************************************************************)
(* factories.py: DateTimeMixin.funding_start_end_date                      *)
(*                                                                         *)
(* The method returns the two dates rendered with "%d/%m/%Y"; the model    *)
(* keeps each date as a count of days.  FundingFactory passes the budget   *)
(* as a Decimal with two zero decimals, which `in range(...)` compares by  *)
(* value, so the argument is modelled as the integer it equals.            *)
(***************************************************************************)
\* range(a, b) of Python: a, a+1, ..., b-1
Range(a, b) == a .. (b - 1)

\* The weeks of the timedelta chosen by the if/elif chain.
FundingWeeks(funding) ==
    IF funding \in Range(0, 500000) THEN 24
    ELSE IF funding \in Range(500001, 1000000) THEN 48
    ELSE IF funding \in Range(1000001, 2000000) THEN 72
    ELSE IF funding \in Range(2000001, 3000000) THEN 96
    ELSE IF funding \in Range(3000001, 4000001) THEN 110
    ELSE 140

\* date + delta, dates counted in days
FundingEndDate(date, funding) == date + 7 * FundingWeeks(funding)

BracketEdges == {0, 500000, 1000000, 2000000, 3000000, 4000000}
Budgets == {e + d : e \in BracketEdges, d \in (0 - FundingSpread) .. FundingSpread} \cap Nat

\* state of the variables a specification does not use
IdleFunding == budget = 0 /\ start_date = 0 /\ end_date = 0
IdleParams  == fac_catalog = 0 /\ conf_catalog = 0 /\ sc_per_fac = 0
IdleMap     == idx = 0 /\ map_fac_id = 0 /\ conf_per_fac = 0
IdlePass    == /\ i = 0 /\ fac_id = 0 /\ phd_starting_id = 0 /\ scientist_starting_id = 0
               /\ scientists = <<>> /\ phds = <<>>
               /\ generated_scientist_ids = <<>> /\ generated_phd_ids = <<>>
IdleGateway == /\ argslist = <<>> /\ works_at = EmptyBag /\ inserted = <<>>
               /\ commit_calls = 0 /\ close_calls = 0 /\ committed = FALSE

InitFunding ==
    /\ pc = "funding_call"
    /\ error = NoError
    /\ budget \in Budgets
    /\ start_date \in 0 .. MaxStartDay
    /\ end_date = 0
    /\ fac_num = 0 /\ conf_num = 0 /\ IdleParams
    /\ faculties = <<>> /\ addresses = <<>> /\ conferences = <<>>
    /\ IdleMap /\ IdlePass /\ IdleGateway

FundingStartEndDate ==
    /\ pc = "funding_call"
    /\ end_date' = FundingEndDate(start_date, budget)
    /\ pc' = "funding_returned"
    /\ UNCHANGED <<error, budget, start_date, paramVars, faculties, addresses,
                   conferences, mapVars, passVars, gatewayVars>>

NextFunding == FundingStartEndDate

SpecFunding == InitFunding /\ [][NextFunding]_vars

(***************************************************************************)
(* database_manager.py: ScientificCommunityDBManager._map_conferences      *)
(***************************************************************************)
\* conf_num // fac_num with fac_num = 0, or idx % conf_per_fac with conf_per_fac = 0
ZeroDivisionError(at) == Exception("ZeroDivisionError", at)

\* A Conference as the factory builds it: no faculty_id, no address_id yet.
NewConference(id) == [conference_id |-> id, faculty_id |-> None, address_id |-> None]

\* ConferenceFactory.generate_unique_conferences over a catalog of n entries
GenerateUniqueConferences(n) == [k \in 1 .. n |-> NewConference(k)]

\* The two assignments of the loop body, for the conference at position k.
MapAssign(conf, k, fid) == [conf EXCEPT !.faculty_id = fid, !.address_id = k]

\* MapAdvance with the block boundary tested one position early
MapAdvanceEarly(k, cpf, fid) == IF (k + 1) % cpf = 0 THEN fid + 1 ELSE fid

\* fac_id after the body's last statement at position k (cpf /= 0).
MapAdvance(k, cpf, fid) == IF k % cpf = 0 THEN fid + 1 ELSE fid

InitMap ==
    /\ pc = "map_call"
    /\ error = NoError
    /\ fac_num \in 0 .. MaxFacNum
    /\ conf_num \in 0 .. MaxConfNum
    /\ \E n \in 0 .. MaxConfCatalog : conferences = GenerateUniqueConferences(n)
    /\ IdleFunding /\ IdleParams
    /\ faculties = <<>> /\ addresses = <<>>
    /\ IdleMap /\ IdlePass /\ IdleGateway

\* lines 113-114: fac_id = 1; conf_per_fac = conf_num // fac_num
MapEnter ==
    /\ pc = "map_call"
    /\ IF fac_num = 0
       THEN /\ error' = ZeroDivisionError("conf_num // fac_num")
            /\ pc' = "map_raised"
            /\ UNCHANGED <<mapVars>>
       ELSE /\ map_fac_id' = 1
            /\ conf_per_fac' = conf_num \div fac_num
            /\ idx' = 0
            /\ pc' = "map_loop"
            /\ UNCHANGED error
    /\ UNCHANGED <<fundingVars, paramVars, faculties, addresses, conferences,
                   passVars, gatewayVars>>

\* lines 115-119: one iteration of the for loop
MapStep ==
    /\ pc = "map_loop"
    /\ idx < Len(conferences)
    /\ idx' = idx + 1
    /\ conferences' = [conferences EXCEPT
                          ![idx + 1] = MapAssign(conferences[idx + 1], idx + 1, map_fac_id)]
    /\ IF conf_per_fac = 0
       THEN /\ error' = ZeroDivisionError("idx % conf_per_fac")
            /\ pc' = "map_raised"
            /\ UNCHANGED map_fac_id
       ELSE /\ map_fac_id' = MapAdvance(idx + 1, conf_per_fac, map_fac_id)
            /\ UNCHANGED <<pc, error>>
    /\ UNCHANGED <<fundingVars, paramVars, faculties, addresses, conf_per_fac,
                   passVars, gatewayVars>>

\* the loop is exhausted and the method returns
MapReturn ==
    /\ pc = "map_loop"
    /\ idx = Len(conferences)
    /\ pc' = "map_returned"
    /\ UNCHANGED <<error, fundingVars, paramVars, faculties, addresses, conferences,
                   mapVars, passVars, gatewayVars>>

NextMap == MapEnter \/ MapStep \/ MapReturn

SpecMap == InitMap /\ [][NextMap]_vars


\* _map_conferences as one call: the loop from position k on.
RECURSIVE MapLoop(_, _, _, _)
MapLoop(confs, k, fid, cpf) ==
    IF k > Len(confs)
    THEN [conferences |-> confs, error |-> NoError]
    ELSE LET assigned == [confs EXCEPT ![k] = MapAssign(confs[k], k, fid)]
         IN  IF cpf = 0
             THEN [conferences |-> assigned,
                   error |-> ZeroDivisionError("idx % conf_per_fac")]
             ELSE MapLoop(assigned, k + 1, MapAdvance(k, cpf, fid), cpf)

MapConferences(confs, cn, fn) ==
    IF fn = 0
    THEN [conferences |-> confs, error |-> ZeroDivisionError("conf_num // fac_num")]
    ELSE MapLoop(confs, 1, 1, cn \div fn)

(***************************************************************************)
(* factories.py: the factories used by the run                             *)
(***************************************************************************)
\* The titles _generate_and_insert_scientists_and_phds reads from the mapper.
PROFESSOR                 == "professor"
ASSISTANT_PROFESSOR       == "assistant professor"
ASSOCIATE_PROFESSOR       == "associate professor"
LECTURER                  == "lecturer"
RESEARCHER                == "researcher"
LABORATORY_TEACHING_STAFF == "laboratory teaching staff"

\* c.SCIENTIST_TITLES["names"]: the keys of the mapper, in catalog order
SCIENTIST_TITLES ==
    <<PROFESSOR, ASSISTANT_PROFESSOR, ASSOCIATE_PROFESSOR,
      LECTURER, RESEARCHER, LABORATORY_TEACHING_STAFF>>

Titles == {SCIENTIST_TITLES[k] : k \in 1 .. Len(SCIENTIST_TITLES)}

\* AddressFactory.generate_addresses(n, start): the address_id of each Address
GenerateAddresses(n, start) == [k \in 1 .. n |-> start + k - 1]

\* FacultyFactory.generate_unique_faculties: the faculty_id of each Faculty,
\* one per catalog name
GenerateUniqueFaculties(n) == [k \in 1 .. n |-> k]

\* ScientistFactory.generate_scientists(n, start), the titles drawn being ts
GenerateScientists(ts, start) ==
    [k \in 1 .. Len(ts) |-> [scientist_id |-> start + k - 1, title |-> ts[k]]]

\* ScientistFactory.generate_scientists_per_title
GenerateScientistsPerTitle(ts, start) ==
    [t \in Titles |-> SelectSeq(GenerateScientists(ts, start), LAMBDA sc : sc.title = t)]

\* PHDFactory.generate_phds(n, start)
GeneratePhds(n, start) ==
    [k \in 1 .. n |-> [phd_id |-> start + k - 1, scientist_id |-> None,
                       supervisor_id |-> None]]

EmptyMapper == [t \in Titles |-> <<>>]

(***************************************************************************)
(* database_manager.py: _generate_and_insert_scientists_and_phds           *)
(***************************************************************************)
\* [sc for sc_list in scientists.values() for sc in sc_list]
RECURSIVE PlainFrom(_, _)
PlainFrom(mapper, k) ==
    IF k > Len(SCIENTIST_TITLES) THEN <<>>
    ELSE mapper[SCIENTIST_TITLES[k]] \o PlainFrom(mapper, k + 1)

PlainScientists(mapper) == PlainFrom(mapper, 1)

\* ProfList reading the lecturers where it should read the assistant professors
ProfListWithLecturers(mapper) ==
    mapper[PROFESSOR] \o mapper[LECTURER] \o mapper[ASSOCIATE_PROFESSOR]

\* line 141
ProfList(mapper) ==
    mapper[PROFESSOR] \o mapper[ASSISTANT_PROFESSOR] \o mapper[ASSOCIATE_PROFESSOR]

\* line 142
StudentList(mapper) ==
    mapper[LECTURER] \o mapper[RESEARCHER] \o mapper[LABORATORY_TEACHING_STAFF]

\* line 135: the rows of the scientist insert; a row carries title, name and
\* surname only, the scientist_id kept here is the id of the object it is built from
ScientistValues(plain) == [k \in 1 .. Len(plain) |-> plain[k]]

\* line 138
WorksAtValues(fid, plain) ==
    [k \in 1 .. Len(plain) |-> [faculty_id |-> fid, scientist_id |-> plain[k].scientist_id]]

\* the rows of one argslist as a bag
RECURSIVE RowsToBag(_)
RowsToBag(rows) ==
    IF rows = <<>> THEN EmptyBag
    ELSE SetToBag({Head(rows)}) (+) RowsToBag(Tail(rows))

\* lines 146-148 for phds[j]: random.choices(prof_list) is the one-element
\* list holding prof_list[pick]
AssignPhd(phd, student, prof_list, pick) ==
    LET candidate == [phd EXCEPT !.scientist_id = student.scientist_id]
    IN  [candidate EXCEPT !.supervisor_id = prof_list[pick].scientist_id]

\* line 152
AdvancePhdStart(start, n) == start + n

\* AdvanceScientistStart stepping by one scientist instead of one batch
AdvanceScientistStartByOne(start, n) == start + 1

\* line 153
AdvanceScientistStart(start, n) == start + n

\* PassRange as range(1, fac_num): the last faculty is skipped
PassRangeShort(n) == Range(1, n)

\* range(1, fac_num + 1)
PassRange(n) == Range(1, n + 1)

\* random.choices on an empty population
IndexError(at) == Exception("IndexError", at)

\* psycopg2.Error raised by a cursor or connection call
Psycopg2Error(at) == Exception("psycopg2.Error", at)

Tables == {"faculty", "address", "conference", "scientist",
           "scientist_works_at_faculty", "phd"}

\* line 149: the rows of the phd insert
PhdValues(ps) ==
    [k \in 1 .. Len(ps) |-> [supervisor_id |-> ps[k].supervisor_id,
                             scientist_id |-> ps[k].scientist_id]]

(***************************************************************************)
(* database_manager.py: generate_and_insert_fake_data under                *)
(* safe_connection.  fac_num, conf_num and sc_per_fac are the method's     *)
(* locals (10, 50 and 40 in the source) and the two catalog lengths come   *)
(* from the constants module; the model draws all five from small ranges.  *)
(* Every cursor and connection call may raise psycopg2.Error.              *)
(***************************************************************************)
\* before line 128
NoPassYet ==
    /\ i = 0 /\ fac_id = 0 /\ phd_starting_id = 0 /\ scientist_starting_id = 0
    /\ scientists = EmptyMapper /\ phds = <<>>
    /\ generated_scientist_ids = <<>> /\ generated_phd_ids = <<>>

\* no call on the cursor or the connection yet
NoCallYet ==
    /\ argslist = [t \in Tables |-> <<>>]
    /\ works_at = EmptyBag
    /\ inserted = <<>>
    /\ commit_calls = 0 /\ close_calls = 0 /\ committed = FALSE

Init ==
    /\ pc = "run_call"
    /\ error = NoError
    /\ IdleFunding
    /\ fac_num \in 0 .. MaxFacNum
    /\ conf_num \in 0 .. MaxConfNum
    /\ sc_per_fac \in 0 .. MaxRunScPerFac
    /\ fac_catalog \in 1 .. MaxFacCatalog
    /\ conf_catalog \in 1 .. MaxConfCatalog
    /\ faculties = <<>> /\ addresses = <<>> /\ conferences = <<>>
    /\ IdleMap
    /\ NoPassYet
    /\ NoCallYet

\* safe_connection's except clause: db_manager.close(), then raise error
SafeConnectionExcept(e) ==
    /\ close_calls' = close_calls + 1
    /\ error' = e
    /\ pc' = "run_raised"

\* execute_values(self._cursor, sql, argslist=values) returning normally
Handed(table, values) ==
    /\ argslist' = [argslist EXCEPT ![table] = values]
    /\ inserted' = Append(inserted, table)

\* lines 83-85
InsertFaculties ==
    /\ pc = "run_call"
    /\ faculties' = GenerateUniqueFaculties(fac_catalog)
    /\ \E ok \in BOOLEAN :
           IF ok
           THEN /\ Handed("faculty", faculties')
                /\ pc' = "faculties_inserted"
                /\ UNCHANGED <<error, close_calls>>
           ELSE /\ SafeConnectionExcept(Psycopg2Error("faculty"))
                /\ UNCHANGED <<argslist, inserted>>
    /\ UNCHANGED <<fundingVars, paramVars, addresses, conferences, mapVars, passVars,
                   works_at, commit_calls, committed>>

\* lines 88-90
InsertAddresses ==
    /\ pc = "faculties_inserted"
    /\ addresses' = GenerateAddresses(conf_num, 1)
    /\ \E ok \in BOOLEAN :
           IF ok
           THEN /\ Handed("address", addresses')
                /\ pc' = "addresses_inserted"
                /\ UNCHANGED <<error, close_calls>>
           ELSE /\ SafeConnectionExcept(Psycopg2Error("address"))
                /\ UNCHANGED <<argslist, inserted>>
    /\ UNCHANGED <<fundingVars, paramVars, faculties, conferences, mapVars, passVars,
                   works_at, commit_calls, committed>>

\* line 93
AdjustDate ==
    /\ pc = "addresses_inserted"
    /\ \E ok \in BOOLEAN :
           IF ok
           THEN /\ pc' = "date_adjusted"
                /\ UNCHANGED <<error, close_calls>>
           ELSE SafeConnectionExcept(Psycopg2Error("adjust date"))
    /\ UNCHANGED <<fundingVars, paramVars, faculties, addresses, conferences, mapVars,
                   passVars, argslist, works_at, inserted, commit_calls, committed>>

\* lines 95-99
InsertConferences ==
    /\ pc = "date_adjusted"
    /\ LET mapped == MapConferences(GenerateUniqueConferences(conf_catalog),
                                    conf_num, fac_num)
       IN  /\ conferences' = mapped.conferences
           /\ IF mapped.error /= NoError
              THEN /\ SafeConnectionExcept(mapped.error)
                   /\ UNCHANGED <<argslist, inserted>>
              ELSE \E ok \in BOOLEAN :
                       IF ok
                       THEN /\ Handed("conference", mapped.conferences)
                            /\ pc' = "pass_call"
                            /\ UNCHANGED <<error, close_calls>>
                       ELSE /\ SafeConnectionExcept(Psycopg2Error("conference"))
                            /\ UNCHANGED <<argslist, inserted>>
    /\ UNCHANGED <<fundingVars, paramVars, faculties, addresses, mapVars, passVars,
                   works_at, commit_calls, committed>>

\* the argslist of the three execute_values calls of one loop iteration
\* (<<>> for a call the iteration does not reach)
IterationArgslist(args, scientist_values, works_at_values, phd_values) ==
    [args EXCEPT !["scientist"] = scientist_values,
                 !["scientist_works_at_faculty"] = works_at_values,
                 !["phd"] = phd_values]

\* line 102 and lines 128-130; i is the next value the for loop takes
PassEnter ==
    /\ pc = "pass_call"
    /\ fac_id' = 1
    /\ phd_starting_id' = 1
    /\ scientist_starting_id' = 1
    /\ i' = 1
    /\ pc' = "pass_loop"
    /\ UNCHANGED <<error, fundingVars, paramVars, faculties, addresses, conferences,
                   mapVars, scientists, phds, generated_scientist_ids,
                   generated_phd_ids, gatewayVars>>

\* lines 131-153: one iteration of the for loop.  ts are the titles drawn by
\* random.choices in generate_scientists, pick the supervisors drawn by
\* random.choices(prof_list), fail the execute_values call that raises.
PassIteration ==
    /\ pc = "pass_loop"
    /\ i \in PassRange(fac_num)
    /\ \E ts \in [1 .. sc_per_fac -> Titles] :
        \* the locals of the iteration, each bound to its one value
        \E generated \in {GenerateScientists(ts, scientist_starting_id)} :
        \E mapper \in {GenerateScientistsPerTitle(ts, scientist_starting_id)} :
        \E plain \in {PlainScientists(mapper)} :
        \E prof_list \in {ProfList(mapper)} :
        \E student_list \in {StudentList(mapper)} :
        \E n \in {Len(student_list)} :
        \E new_phds \in {GeneratePhds(n, phd_starting_id)} :
        \E fail \in {"none", "scientist", "scientist_works_at_faculty", "phd"} :
        /\ scientists' = mapper
        /\ generated_scientist_ids' = generated_scientist_ids \o
               [k \in 1 .. Len(generated) |-> generated[k].scientist_id]
        /\ IF fail = "scientist"
           THEN /\ SafeConnectionExcept(Psycopg2Error("scientist"))
                /\ argslist' = IterationArgslist(argslist, <<>>, <<>>, <<>>)
                /\ phds' = <<>>
                /\ UNCHANGED <<inserted, works_at, generated_phd_ids,
                               i, phd_starting_id, scientist_starting_id>>
           ELSE IF fail = "scientist_works_at_faculty"
           THEN /\ SafeConnectionExcept(Psycopg2Error("scientist_works_at_faculty"))
                /\ argslist' = IterationArgslist(argslist, ScientistValues(plain), <<>>, <<>>)
                /\ inserted' = Append(inserted, "scientist")
                /\ phds' = <<>>
                /\ UNCHANGED <<works_at, generated_phd_ids,
                               i, phd_starting_id, scientist_starting_id>>
           ELSE
                /\ works_at' = works_at (+) RowsToBag(WorksAtValues(fac_id, plain))
                /\ generated_phd_ids' = generated_phd_ids \o
                       [k \in 1 .. n |-> new_phds[k].phd_id]
                /\ IF n > 0 /\ prof_list = <<>>
                   THEN \* line 146 for j = 0, then random.choices raises at line 147
                        /\ phds' = [new_phds EXCEPT
                                       ![1].scientist_id = student_list[1].scientist_id]
                        /\ SafeConnectionExcept(IndexError("random.choices(prof_list)"))
                        /\ argslist' = IterationArgslist(argslist, ScientistValues(plain),
                                                          WorksAtValues(fac_id, plain), <<>>)
                        /\ inserted' = inserted \o <<"scientist", "scientist_works_at_faculty">>
                        /\ UNCHANGED <<i, phd_starting_id, scientist_starting_id>>
                   ELSE \E pick \in [1 .. n -> 1 .. Len(prof_list)] :
                        /\ phds' = [j \in 1 .. n |->
                               AssignPhd(new_phds[j], student_list[j], prof_list, pick[j])]
                        /\ IF fail = "phd"
                           THEN /\ SafeConnectionExcept(Psycopg2Error("phd"))
                                /\ argslist' = IterationArgslist(argslist,
                                       ScientistValues(plain),
                                       WorksAtValues(fac_id, plain), <<>>)
                                /\ inserted' = inserted \o
                                       <<"scientist", "scientist_works_at_faculty">>
                                /\ UNCHANGED <<i, phd_starting_id, scientist_starting_id>>
                           ELSE /\ argslist' = IterationArgslist(argslist,
                                       ScientistValues(plain),
                                       WorksAtValues(fac_id, plain), PhdValues(phds'))
                                /\ inserted' = inserted \o
                                       <<"scientist", "scientist_works_at_faculty", "phd">>
                                /\ phd_starting_id' = AdvancePhdStart(phd_starting_id, n)
                                /\ scientist_starting_id' =
                                       AdvanceScientistStart(scientist_starting_id, sc_per_fac)
                                /\ i' = i + 1
                                /\ UNCHANGED <<pc, error, close_calls>>
    /\ UNCHANGED <<fundingVars, paramVars, faculties, addresses, conferences, mapVars,
                   fac_id, commit_calls, committed>>

\* the for loop is exhausted and the pass returns
PassReturn ==
    /\ pc = "pass_loop"
    /\ i \notin PassRange(fac_num)
    /\ pc' = "pass_returned"
    /\ UNCHANGED <<error, fundingVars, paramVars, faculties, addresses, conferences,
                   mapVars, passVars, gatewayVars>>

\* line 103
Commit ==
    /\ pc = "pass_returned"
    /\ commit_calls' = commit_calls + 1
    /\ \E ok \in BOOLEAN :
           IF ok
           THEN /\ committed' = TRUE
                /\ pc' = "run_returned"
                /\ UNCHANGED <<error, close_calls>>
           ELSE /\ SafeConnectionExcept(Psycopg2Error("commit"))
                /\ UNCHANGED committed
    /\ UNCHANGED <<fundingVars, paramVars, faculties, addresses, conferences, mapVars,
                   passVars, argslist, works_at, inserted>>

Next ==
    \/ InsertFaculties
    \/ InsertAddresses
    \/ AdjustDate
    \/ InsertConferences
    \/ PassEnter
    \/ PassIteration
    \/ PassReturn
    \/ Commit

Spec == Init /\ [][Next]_vars

(***************************************************************************)
(* _generate_and_insert_scientists_and_phds(fac_num, sc_per_fac) alone,    *)
(* from its call at line 102 to its return.  Its only caller is            *)
(* generate_and_insert_fake_data, so an exception leaving it reaches       *)
(* safe_connection's except clause.                                        *)
(***************************************************************************)
InitPass ==
    /\ pc = "pass_call"
    /\ error = NoError
    /\ IdleFunding
    /\ fac_num \in 0 .. MaxFacNum
    /\ sc_per_fac \in 0 .. MaxScPerFac
    /\ conf_num = 0 /\ fac_catalog = 0 /\ conf_catalog = 0
    /\ faculties = <<>> /\ addresses = <<>> /\ conferences = <<>>
    /\ IdleMap
    /\ NoPassYet
    /\ NoCallYet

NextPass == PassEnter \/ PassIteration \/ PassReturn

SpecPass == InitPass /\ [][NextPass]_vars

(***************************************************************************)
(* Properties of funding_start_end_date and of _map_conferences            *)
(***************************************************************************)
\* The documented duration table: brackets closed on their upper bound.
DocumentedWeeks(b) ==
    IF b <= 500000 THEN 24
    ELSE IF b <= 1000000 THEN 48
    ELSE IF b <= 2000000 THEN 72
    ELSE IF b <= 3000000 THEN 96
    ELSE IF b <= 4000000 THEN 110
    ELSE 140

\* C1: for every budget b >= 0 the returned end date is the start date plus
\* the duration of the documented bracket of b (24/48/72/96/110/140 weeks,
\* brackets closed on their upper bound).
C1_DurationOfDocumentedBracket ==
    (pc = "funding_returned" /\ budget >= 0)
        => end_date = start_date + 7 * DocumentedWeeks(budget)

Ceil(a, b) == (a + b - 1) \div b

MapPrecondition ==
    /\ fac_num > 0
    /\ conf_num > 0
    /\ conf_num % fac_num = 0
    /\ Len(conferences) = conf_num

\* C3: after _map_conferences on conf_num conferences, conf_num a positive
\* multiple of fac_num, the conference at position p has address_id p and
\* faculty_id ceil(p / (conf_num / fac_num)); every faculty_id is in
\* 1..fac_num, every faculty gets conf_num / fac_num conferences, and
\* faculty_id is non-decreasing along the list.
C3_ContiguousEqualBlocks ==
    (pc = "map_returned" /\ MapPrecondition) =>
        LET cpf == conf_num \div fac_num
            P   == 1 .. Len(conferences)
        IN  /\ error = NoError
            /\ \A p \in P : /\ conferences[p].address_id = p
                            /\ conferences[p].faculty_id = Ceil(p, cpf)
                            /\ conferences[p].faculty_id \in 1 .. fac_num
            /\ {conferences[p].address_id : p \in P} = 1 .. conf_num
            /\ \A f \in 1 .. fac_num :
                   Cardinality({p \in P : conferences[p].faculty_id = f}) = cpf
            /\ \A p, q \in P :
                   p <= q => conferences[p].faculty_id <= conferences[q].faculty_id

C3_Witness ==
    /\ pc = "map_returned"
    /\ MapPrecondition
    /\ fac_num = 2
    /\ conf_num = 4
    /\ conferences[4].faculty_id = 2

\* C7: when conf_num is not an exact multiple of fac_num, _map_conferences
\* fails with UnevenDistributionError and no conference is ever given a
\* faculty_id or an address_id.
C7_UnevenDistributionRejected ==
    (fac_num > 0 /\ conf_num % fac_num /= 0) =>
        /\ \A p \in 1 .. Len(conferences) :
               /\ conferences[p].faculty_id = None
               /\ conferences[p].address_id = None
        /\ pc /= "map_returned"
        /\ pc = "map_raised" => error.type = "UnevenDistributionError"

(***************************************************************************)
(* Properties of the Scientist/PHD pass                                    *)
(***************************************************************************)
SeniorTitles == {PROFESSOR, ASSISTANT_PROFESSOR, ASSOCIATE_PROFESSOR}
JuniorTitles == {LECTURER, RESEARCHER, LABORATORY_TEACHING_STAFF}

\* the scientists of the current iteration's batch
Batch == UNION {{scientists[t][k] : k \in 1 .. Len(scientists[t])} : t \in Titles}
Seniors == {sc \in Batch : sc.title \in SeniorTitles}
Juniors == {sc \in Batch : sc.title \in JuniorTitles}
Ids(S) == {sc.scientist_id : sc \in S}

\* the loop is between two iterations, or exhausted: i - 1 iterations are complete
BetweenIterations == pc \in {"pass_loop", "pass_returned"}

\* iteration i - 1 has just completed; scientists, phds and the per-faculty
\* argslists are those of that iteration
IterationDone == BetweenIterations /\ i > 1

\* C2: every scientist of iteration i's batch gets exactly one
\* scientist_works_at_faculty row, whose faculty_id is i; after the pass each
\* faculty 1..fac_num has exactly sc_per_fac scientists linked to it.
C2_JoinLinksCurrentFaculty ==
    /\ IterationDone =>
           \A sc \in Batch :
               /\ CopiesIn([faculty_id |-> i - 1, scientist_id |-> sc.scientist_id],
                           works_at) = 1
               /\ \A row \in BagToSet(works_at) :
                      row.scientist_id = sc.scientist_id => row.faculty_id = i - 1
    /\ pc = "pass_returned" =>
           \A f \in 1 .. fac_num :
               BagCardinality(
                   [row \in {r \in BagToSet(works_at) : r.faculty_id = f}
                        |-> works_at[row]]) = sc_per_fac

\* C4: every PHD row handed to the insert has a junior of the iteration's
\* batch as scientist_id and a senior of the same batch as supervisor_id,
\* the two differ, and each junior of the batch is the candidate of exactly
\* one PHD row.
C4_PhdCandidateAndSupervisor ==
    IterationDone =>
        LET rows == argslist["phd"]
        IN  /\ \A k \in 1 .. Len(rows) :
                   /\ rows[k].scientist_id \in Ids(Juniors)
                   /\ rows[k].supervisor_id \in Ids(Seniors)
                   /\ rows[k].scientist_id /= rows[k].supervisor_id
            /\ \A sc \in Juniors :
                   Cardinality({k \in 1 .. Len(rows) :
                                    rows[k].scientist_id = sc.scientist_id}) = 1

C4_Witness ==
    /\ IterationDone
    /\ i = 3
    /\ Juniors /= {}
    /\ Len(argslist["phd"]) = Cardinality(Juniors)

Dense(ids) == ids = [k \in 1 .. Len(ids) |-> k]

\* C5: after k completed iterations the scientist ids generated so far are
\* exactly 1..k*sc_per_fac, each once, and the PHD ids generated so far are
\* exactly 1..J, each once, J growing in every iteration by the size of that
\* faculty's junior set.
C5_DenseIdentifiers ==
    /\ [](BetweenIterations =>
            /\ Dense(generated_scientist_ids)
            /\ Len(generated_scientist_ids) = (i - 1) * sc_per_fac
            /\ Dense(generated_phd_ids)
            /\ Len(generated_phd_ids) = phd_starting_id - 1)
    /\ [][(BetweenIterations /\ BetweenIterations' /\ i' = i + 1) =>
              Len(generated_phd_ids') = Len(generated_phd_ids) + Cardinality(Juniors')]_vars

C5_Witness ==
    /\ pc = "pass_returned"
    /\ fac_num = 2
    /\ sc_per_fac = 2
    /\ generated_scientist_ids = <<1, 2, 3, 4>>
    /\ generated_phd_ids = <<1, 2>>

\* C8: a batch with no senior and some junior makes the pass fail with
\* NoSupervisorAvailableError; no PHD row with a missing supervisor_id or with
\* supervisor_id equal to its scientist_id is handed to the insert; a batch
\* with no junior yields zero PHDs and the pass goes on without error.
C8_NoSupervisorAvailable ==
    /\ (pc \in {"pass_loop", "pass_returned", "run_raised"}
            /\ Seniors = {} /\ Juniors /= {}
            /\ error.type /= "psycopg2.Error")
           => (pc = "run_raised" /\ error.type = "NoSupervisorAvailableError")
    /\ \A k \in 1 .. Len(argslist["phd"]) :
           /\ argslist["phd"][k].supervisor_id /= None
           /\ argslist["phd"][k].supervisor_id /= argslist["phd"][k].scientist_id
    /\ (Juniors = {} /\ error.type /= "psycopg2.Error") =>
           (pc /= "run_raised" /\ argslist["phd"] = <<>>)

\* C10: in every iteration the scientist rows are handed to the insert in
\* increasing scientist_id order from the iteration's scientist_starting_id:
\* the k-th row is built from the scientist with id scientist_starting_id + k - 1.
C10_RowsInIdOrder ==
    LET rows  == argslist["scientist"]
        start == IF pc = "run_raised" THEN scientist_starting_id
                 ELSE scientist_starting_id - sc_per_fac
    IN  \A k \in 1 .. Len(rows) : rows[k].scientist_id = start + k - 1

(***************************************************************************)
(* Properties of a whole run                                               *)
(***************************************************************************)
\* C6: every conference handed to the insert has the id of a generated
\* address as address_id and the id of a generated faculty as faculty_id.
C6_NoDanglingReference ==
    \A k \in 1 .. Len(argslist["conference"]) :
        /\ argslist["conference"][k].address_id \in
               {addresses[a] : a \in 1 .. Len(addresses)}
        /\ argslist["conference"][k].faculty_id \in
               {faculties[f] : f \in 1 .. Len(faculties)}

RECURSIVE PerFacultyInserts(_)
PerFacultyInserts(n) ==
    IF n = 0 THEN <<>>
    ELSE <<"scientist", "scientist_works_at_faculty", "phd">> \o PerFacultyInserts(n - 1)

\* every batch of a run, in the order the run hands them over
AllBatches == <<"faculty", "address", "conference">> \o PerFacultyInserts(fac_num)

====
